---- MODULE Spec2Model ----
(***************************************************************************)
(* The two TransactionExecutor implementations of the repository:          *)
(*   RestApiTransactionExecutor   (emitter/transaction_executor.rs), the   *)
(*       retrying multi-endpoint submitter, checked under Spec;            *)
(*   DbGenInitTransactionExecutor (executor-benchmark/gen_executor.rs),    *)
(*       the local-ledger submitter, checked under SpecDb.                 *)
(* Indices are those of the code (attempt i and bucket numbers start at    *)
(* 0); a TLA+ sequence holds bucket b at position b + 1.                   *)
(***************************************************************************)
EXTENDS Integers, Sequences, FiniteSets, TLC

\* ---------------------------------------------------------------- bounds
MaxRetries == 3      \* largest max_retries of a configuration
MaxClients == 2      \* largest number of rest_clients
MaxTxns == 2         \* longest batch handed to one call
MaxSenders == 2      \* sender addresses 1..MaxSenders
MaxSeed == 1         \* run seeds 0..MaxSeed (the code draws a u64)
MaxWork == 4         \* largest max_retries * batch length explored
HashSpace == 251     \* the digest is reduced to 0..HashSpace-1
MaxSeqNum == 1       \* sequence numbers the local ledger starts from: 0..MaxSeqNum
ChannelCapacity == 1 \* bound of the block_sender sync channel
MaxQueries == 3      \* the count of sequence-number queries saturates here

VARIABLES
    rest_clients,    \* RestApiTransactionExecutor.rest_clients: path prefix of each client
    max_retries,     \* RestApiTransactionExecutor.max_retries
    counters,        \* the CounterState handed to the batch call
    counters_by,     \* who created it: "none", "rest", "db", "other"
    phase,           \* "new", "ready", "running", "returned"
    txns,            \* the batch, a sequence of [sender, sequence_number, payload]
    run_seed,        \* the run seed of the batch call
    task,            \* one submit_check_and_retry future per transaction
    result,          \* what the batch call returned
    db_seq,          \* local ledger: sequence number of each existing account
    block_sender,    \* the batches in the delivery channel, oldest first
    receiver_up,     \* the receiving end of the channel has not been dropped
    cursor,          \* local-ledger call: position of the for loop of line 73
    sent,            \* batches this call has put on the channel
    committed,       \* local ledger: the transactions committed so far
    queries          \* local-ledger call: query_sequence_number calls made

restVars == <<rest_clients, max_retries, run_seed, task>>
dbVars == <<db_seq, block_sender, receiver_up, cursor, sent, committed, queries>>
vars == <<rest_clients, max_retries, counters, counters_by, phase, txns, run_seed,
          task, result, db_seq, block_sender, receiver_up, cursor, sent, committed,
          queries>>

\* ------------------------------------------------------------- helpers
Min(a, b) == IF a < b THEN a ELSE b

Zeros(n) == [k \in 1..n |-> 0]

\* the path_prefix_string values of the pool
Identities(pool) == {pool[k] : k \in 1..Len(pool)}

\* ------------------------------------------------------ configurations
\* max_retries of a valid configuration (spec: max_retries >= 1)
RetryLimits == 1..MaxRetries

\* Non-empty pools of clients, each named by its path prefix; two clients
\* of one pool may share a path prefix.
ClientPools ==
    UNION {{p \in [1..n -> 1..n] :
                /\ p[1] = 1
                /\ \A k \in 2..n : p[k] \in {p[k - 1], p[k - 1] + 1}} : n \in 1..MaxClients}

Senders == 1..MaxSenders

RECURSIVE SeqNumsBefore(_, _, _)
\* how many of the first k - 1 transactions of the sender list ss are from ss[k]
SeqNumsBefore(ss, k, j) ==
    IF j >= k THEN 0
    ELSE (IF ss[j] = ss[k] THEN 1 ELSE 0) + SeqNumsBefore(ss, k, j + 1)

\* A batch of SignedTransaction: each sender's sequence numbers count up from
\* base in input order; payload tells the transactions of this call (0) from
\* those of an earlier one (1), which have another content hash.
MkBatch(ss, base, payload) ==
    [k \in 1..Len(ss) |->
        [sender |-> ss[k], sequence_number |-> base + SeqNumsBefore(ss, k, 1),
         payload |-> payload]]

SenderLists(maxLen) == UNION {[1..n -> Senders] : n \in 0..maxLen}

\* the sender lists in which the senders appear in the order 1, 2, ... of
\* their first use
OrderedSenderLists(maxLen) ==
    {ss \in SenderLists(maxLen) :
        \A k \in 1..Len(ss) :
            ss[k] = 1 \/ \E j \in 1..(k - 1) : ss[j] = ss[k] - 1}

\* ------------------------------------------------------- CounterState
NoCounters ==
    [submit_failures |-> <<>>, wait_failures |-> <<>>, successes |-> 0,
     by_client |-> <<>>]

ZeroTriple == [successes |-> 0, submit_failures |-> 0, wait_failures |-> 0]

\* a create_counter_state that keys the per-client map by pool position
create_counter_state_by_position(pool, retries) ==
    [submit_failures |-> Zeros(retries),
     wait_failures |-> Zeros(retries + 1),
     successes |-> 0,
     by_client |-> [c \in 1..Len(pool) |-> ZeroTriple]]

\* RestApiTransactionExecutor::create_counter_state
create_counter_state(pool, retries) ==
    [submit_failures |-> Zeros(retries),
     wait_failures |-> Zeros(retries),
     successes |-> 0,
     by_client |-> [c \in Identities(pool) |-> ZeroTriple]]

\* DbGenInitTransactionExecutor::create_counter_state
db_create_counter_state ==
    [submit_failures |-> <<0>>, wait_failures |-> <<0>>, successes |-> 0,
     by_client |-> <<>>]

\* a per-client update that is always skipped
BumpClientSkipped(by_client, prefix, field) == by_client

\* counters.by_client.get(prefix).map(|triple| field.fetch_add(1)), guarded by
\* !by_client.is_empty()
BumpClient(by_client, prefix, field) ==
    IF DOMAIN by_client # {} /\ prefix \in DOMAIN by_client
    THEN [by_client EXCEPT ![prefix] = [@ EXCEPT ![field] = @ + 1]]
    ELSE by_client

\* an index that is not held below the length of the array
BucketUnclamped(i, len) == i

\* the bucket of attempt i in an array of len counters: i.min(len - 1)
Bucket(i, len) == Min(i, len - 1)

\* a submit-failure record that always uses bucket 0
RecordSubmitFailureFirstBucket(c, i, prefix) ==
    [c EXCEPT !.submit_failures[1] = @ + 1,
              !.by_client = BumpClient(@, prefix, "submit_failures")]

\* lines 77-88: the attempt's submit failed
RecordSubmitFailure(c, i, prefix) ==
    [c EXCEPT !.submit_failures[Bucket(i, Len(c.submit_failures)) + 1] = @ + 1,
              !.by_client = BumpClient(@, prefix, "submit_failures")]

\* a wait-failure record that forgets the per-attempt bucket
RecordWaitFailureNoBucket(c, i, prefix) ==
    [c EXCEPT !.by_client = BumpClient(@, prefix, "wait_failures")]

\* lines 89-100: the attempt's wait failed
RecordWaitFailure(c, i, prefix) ==
    [c EXCEPT !.wait_failures[Bucket(i, Len(c.wait_failures)) + 1] = @ + 1,
              !.by_client = BumpClient(@, prefix, "wait_failures")]

\* lines 102-113: the attempt succeeded
RecordSuccess(c, prefix) ==
    [c EXCEPT !.successes = @ + 1,
              !.by_client = BumpClient(@, prefix, "successes")]

\* a fallback that forgets to credit the success
FallbackSuccessNoCredit(c) == c

\* a fallback that also books the success in the last wait-failure bucket
FallbackSuccessBooksBucket(c) ==
    [c EXCEPT !.successes = @ + 1,
              !.wait_failures[Len(c.wait_failures)] = @ + 1]

\* lines 123-125: the fallback wait succeeded
FallbackSuccess(c) == [c EXCEPT !.successes = @ + 1]

\* an accounting that books a failed submit as a failed wait
RecordAttemptSubmitAsWait(c, i, prefix, failed_submit, failed_wait) ==
    LET c1 == IF failed_submit THEN RecordWaitFailure(c, i, prefix) ELSE c
        c2 == IF failed_wait THEN RecordWaitFailure(c1, i, prefix) ELSE c1
    IN  IF ~failed_wait THEN RecordSuccess(c2, prefix) ELSE c2

\* lines 77-115 for one attempt's outcome
RecordAttempt(c, i, prefix, failed_submit, failed_wait) ==
    LET c1 == IF failed_submit THEN RecordSubmitFailure(c, i, prefix) ELSE c
        c2 == IF failed_wait THEN RecordWaitFailure(c1, i, prefix) ELSE c1
    IN  IF ~failed_wait THEN RecordSuccess(c2, prefix) ELSE c2

\* ---------------------------------------------------- EndpointSelector
\* lines 58-63: the seed is the concatenation of i, run_seed and the sender
SeedBytes(i, seed, sender) == <<i, seed, sender>>

\* HashValue::sha3_256_of, reduced to a small digest space
sha3_256_of(bytes) ==
    (bytes[1] * 89 + bytes[2] * 57 + bytes[3] * 131 + 17) % HashSpace

\* StdRng::from_seed(digest) followed by SliceRandom::choose: a position of
\* the pool that depends on the digest and the pool length only
choose(pool, digest) == (digest % Len(pool)) + 1

\* a selection that also feeds the transaction's sequence number to the seed
random_rest_client_per_txn(i, seed, txn) ==
    choose(rest_clients, sha3_256_of(SeedBytes(i + txn.sequence_number, seed, txn.sender)))

\* lines 58-65: the client of attempt i for the sender of txn
random_rest_client_from_rng(i, seed, txn) ==
    choose(rest_clients, sha3_256_of(SeedBytes(i, seed, txn.sender)))

\* ------------------------------------------- submit_check_and_retry
\* a loop that leaves for the fallback one attempt early
LoopEntryOneLess(i) == IF i + 1 < max_retries THEN "submit" ELSE "fallback"

\* a loop that makes one attempt more than max_retries
LoopEntryOneMore(i) == IF i <= max_retries THEN "submit" ELSE "fallback"

\* where the for loop of line 46 stands with index i
LoopEntry(i) == IF i < max_retries THEN "submit" ELSE "fallback"

\* submit_and_check, lines 138-149: an error of submit_bcs sets failed_submit
\* and the function goes on to the wait
SubmitStage(accepted) == [failed_submit |-> ~accepted, pc |-> "wait"]

\* a check that reports an attempt failed when its submit failed
WaitStageNeedsSubmit(failed_submit, seen) ==
    [failed_wait |-> ~seen, ok |-> seen /\ ~failed_submit]

\* submit_and_check, lines 150-170: an error of wait_for_transaction_by_hash
\* sets failed_wait and is returned; otherwise Ok(()), whatever failed_submit
WaitStage(failed_submit, seen) == [failed_wait |-> ~seen, ok |-> seen]

NewTask ==
    [pc |-> LoopEntry(0), i |-> 0, rest_client |-> 0, accepted |-> TRUE,
     failed_submit |-> FALSE, submit_client |-> 0, hist |-> <<>>, fallback |-> "none"]

Terminal(t) == task[t].pc \in {"Done", "Failed"}

\* try_join_all: ready as soon as one future has failed
TryJoinAllReady == (\E t \in DOMAIN task : task[t].pc = "Failed")
                   \/ (\A t \in DOMAIN task : Terminal(t))

\* join_all(...).await of lines 201-205: ready when every future has finished
JoinAllReady == \A t \in DOMAIN task : Terminal(t)

\* a collect that reports the number of failed futures
CollectFailedCount(ts, n) ==
    LET failed == {t \in DOMAIN ts : ts[t].pc # "Done"}
    IN  IF failed = {} THEN [kind |-> "ok", batch_size |-> 0, cause |-> 0]
        ELSE [kind |-> "err", batch_size |-> Cardinality(failed),
              cause |-> CHOOSE t \in failed : \A u \in failed : t <= u]

\* lines 206-216: collect::<Result<Vec<()>>>() keeps the first error in input
\* order, with_context adds txns.len()
Collect(ts, n) ==
    LET failed == {t \in DOMAIN ts : ts[t].pc # "Done"}
    IN  IF failed = {} THEN [kind |-> "ok", batch_size |-> 0, cause |-> 0]
        ELSE [kind |-> "err", batch_size |-> n,
              cause |-> CHOOSE t \in failed : \A u \in failed : t <= u]

NoResult == [kind |-> "none", batch_size |-> 0, cause |-> 0]

\* ------------------------------------------------------------- Init
Init ==
    /\ rest_clients \in ClientPools
    /\ max_retries \in RetryLimits
    /\ counters = NoCounters
    /\ counters_by = "none"
    /\ phase = "new"
    /\ txns = <<>>
    /\ run_seed = 0
    /\ task = <<>>
    /\ result = NoResult
    /\ db_seq = <<>>
    /\ block_sender = <<>>
    /\ receiver_up = TRUE
    /\ cursor = 0
    /\ sent = <<>>
    /\ committed = {}
    /\ queries = 0

\* ---------------------------------------------------------- actions
\* the driver creates the CounterState with this executor
CreateCounterState ==
    /\ phase = "new"
    /\ counters' = create_counter_state(rest_clients, max_retries)
    /\ counters_by' = "rest"
    /\ phase' = "ready"
    /\ UNCHANGED <<rest_clients, max_retries, txns, run_seed, task, result, dbVars>>

\* the CounterState of another retrying executor: one client of path prefix 1,
\* max_retries = 2
other_create_counter_state == create_counter_state(<<1>>, 2)

\* the driver hands over a CounterState made by the local-ledger executor or
\* by another retrying executor
ForeignCounterState ==
    /\ phase = "new"
    /\ \E by \in {"db", "other"} :
        /\ counters' = IF by = "db" THEN db_create_counter_state
                       ELSE other_create_counter_state
        /\ counters_by' = by
    /\ phase' = "ready"
    /\ UNCHANGED <<rest_clients, max_retries, txns, run_seed, task, result, dbVars>>

\* execute_transactions_with_counter up to the first await: the run seed is
\* drawn and one future per transaction is made
ExecuteStart ==
    /\ phase = "ready"
    /\ \E ss \in OrderedSenderLists(MaxTxns), seed \in 0..MaxSeed :
        /\ max_retries * Len(ss) <= MaxWork
        /\ txns' = MkBatch(ss, 0, 0)
        /\ run_seed' = seed
        /\ task' = [t \in 1..Len(ss) |-> NewTask]
    /\ phase' = "running"
    /\ UNCHANGED <<rest_clients, max_retries, counters, counters_by, result, dbVars>>

\* submit_and_check, lines 137-149: the client of the attempt is selected and
\* the submit returns accepted or not
SubmitBcs(t) ==
    /\ phase = "running"
    /\ task[t].pc = "submit"
    /\ LET c == random_rest_client_from_rng(task[t].i, run_seed, txns[t]) IN
       \E accepted \in BOOLEAN :
          task' = [task EXCEPT ![t] =
                      [@ EXCEPT !.pc = SubmitStage(accepted).pc, !.rest_client = c,
                                !.submit_client = c, !.accepted = accepted,
                                !.failed_submit = SubmitStage(accepted).failed_submit]]
    /\ UNCHANGED <<rest_clients, max_retries, counters, counters_by, phase, txns,
                   run_seed, result, dbVars>>

\* submit_and_check, lines 150-170, then lines 77-116: the wait returns, the
\* counters are updated and the loop ends or goes on
WaitForTransaction(t) ==
    /\ phase = "running"
    /\ task[t].pc = "wait"
    /\ \E seen \in BOOLEAN :
        LET me == task[t]
            r == WaitStage(me.failed_submit, seen)
            att == [i |-> me.i, submit_client |-> me.submit_client,
                    wait_client |-> me.rest_client, accepted |-> me.accepted,
                    seen |-> seen, failed_submit |-> me.failed_submit,
                    failed_wait |-> r.failed_wait, ok |-> r.ok]
        IN  /\ counters' = RecordAttempt(counters, me.i, rest_clients[me.rest_client],
                                         me.failed_submit, r.failed_wait)
            /\ task' = [task EXCEPT ![t] =
                          [@ EXCEPT !.pc = IF r.ok THEN "Done" ELSE LoopEntry(me.i + 1),
                                    !.i = IF r.ok THEN me.i ELSE me.i + 1,
                                    !.accepted = TRUE,
                                    !.failed_submit = FALSE,
                                    !.hist = Append(@, att)]]
    /\ UNCHANGED <<rest_clients, max_retries, counters_by, phase, txns, run_seed, result,
                   dbVars>>

\* lines 118-126: the wait on a client drawn from thread_rng
FallbackWait(t) ==
    /\ phase = "running"
    /\ task[t].pc = "fallback"
    /\ \E c \in 1..Len(rest_clients), seen \in BOOLEAN :
        /\ task' = [task EXCEPT ![t] =
                      [@ EXCEPT !.pc = IF seen THEN "Done" ELSE "Failed",
                                !.fallback = IF seen THEN "committed" ELSE "failed"]]
        /\ counters' = IF seen THEN FallbackSuccess(counters) ELSE counters
    /\ UNCHANGED <<rest_clients, max_retries, counters_by, phase, txns, run_seed, result,
                   dbVars>>

\* lines 205-216: join_all has every output, the call returns
Return ==
    /\ phase = "running"
    /\ JoinAllReady
    /\ result' = Collect(task, Len(txns))
    /\ phase' = "returned"
    /\ UNCHANGED <<rest_clients, max_retries, counters, counters_by, txns, run_seed, task,
                   dbVars>>

Next ==
    \/ CreateCounterState
    \/ ForeignCounterState
    \/ ExecuteStart
    \/ \E t \in DOMAIN task : SubmitBcs(t)
    \/ \E t \in DOMAIN task : WaitForTransaction(t)
    \/ \E t \in DOMAIN task : FallbackWait(t)
    \/ Return

Spec == Init /\ [][Next]_vars

\* the next step of the future of transaction t
TaskStep(t) ==
    /\ t \in DOMAIN task
    /\ (SubmitBcs(t) \/ WaitForTransaction(t) \/ FallbackWait(t))

\* every transport call returns and its future is polled again; join_all is
\* polled once its futures are finished
FairSpec ==
    /\ Spec
    /\ \A t \in 1..MaxTxns : WF_vars(TaskStep(t))
    /\ WF_vars(Return)

\* =================================================================
\* Properties of the retrying executor (checked under Spec)
\* =================================================================
Tasks == DOMAIN task

DoneTasks == {t \in Tasks : task[t].pc = "Done"}

AllDone == \A t \in Tasks : task[t].pc = "Done"

Returned == phase = "returned"

\* every attempt of t has been made and each failed its submit and its wait
AllAttemptsFailed(t) ==
    /\ Len(task[t].hist) = max_retries
    /\ \A j \in 1..max_retries :
          task[t].hist[j].failed_submit /\ task[t].hist[j].failed_wait

\* the first attempt of t has been made and succeeded (its wait succeeded)
FirstAttemptSucceeded(t) ==
    /\ Len(task[t].hist) = 1
    /\ ~task[t].hist[1].failed_wait

FirstSubmitFailed == {t \in Tasks : Len(task[t].hist) >= 1 /\ task[t].hist[1].failed_submit}

DistinctSenders ==
    \A t, u \in 1..Len(txns) : t # u => txns[t].sender # txns[u].sender

RECURSIVE SumOver(_, _)
\* sum of f[x] over the finite set S
SumOver(f, S) ==
    IF S = {} THEN 0
    ELSE LET x == CHOOSE y \in S : TRUE IN f[x] + SumOver(f, S \ {x})

\* the total of one field of the per-endpoint triples
ClientSum(field) ==
    SumOver([id \in DOMAIN counters.by_client |-> counters.by_client[id][field]],
            DOMAIN counters.by_client)

\* C1: the batch call returns success exactly when every transaction of the
\* batch is Done; when some transaction is Failed (its fallback wait failed)
\* it returns one error whose batch size is the length of the input; every
\* transaction of the input has its own task, none is dropped.
C1_SuccessIffAllDone ==
    Returned =>
        /\ Tasks = 1..Len(txns)
        /\ result.kind \in {"ok", "err"}
        /\ (result.kind = "ok") <=> AllDone
        /\ \A t \in Tasks : task[t].pc = "Failed" =>
              /\ task[t].fallback = "failed"
              /\ result.kind = "err"
              /\ result.batch_size = Len(txns)
        /\ result.kind = "err" => result.batch_size = Len(txns)

C1_Witness ==
    /\ Returned
    /\ Len(txns) = 2
    /\ result.kind = "err"
    /\ result.batch_size = 2
    /\ \E t, u \in Tasks : task[t].pc = "Failed" /\ task[u].pc = "Done"

\* C2: in every interleaving the global success counter counts exactly the
\* transactions that are Done (each credits it once, no increment is lost),
\* and when all are Done the call returns success with the counter raised by
\* the batch size.
C2_SuccessCounterExact ==
    /\ counters.successes = Cardinality(DoneTasks)
    /\ (Returned /\ AllDone) =>
          /\ result.kind = "ok"
          /\ counters.successes = Len(txns)

C2_Witness ==
    /\ Returned
    /\ Len(txns) = 2
    /\ AllDone
    /\ counters.successes = 2
    /\ \E t, u \in Tasks :
          /\ task[t].fallback = "committed"
          /\ task[u].fallback = "none"
          /\ Len(task[u].hist) = 2

\* Scenario B: one endpoint, max_retries = 3, a batch of one transaction whose
\* submissions at attempts 0 and 1 fail and whose wait at attempt 2 succeeds
ScenarioB ==
    /\ Returned
    /\ counters_by = "rest"
    /\ Len(rest_clients) = 1
    /\ max_retries = 3
    /\ Len(txns) = 1
    /\ Len(task[1].hist) = 3
    /\ task[1].hist[1].failed_submit
    /\ task[1].hist[2].failed_submit
    /\ ~task[1].hist[3].failed_wait

\* C4 as stated: in scenario B the final counters are submit_failures[0] = 1,
\* submit_failures[1] = 1, successes = 1 and every wait-failure bucket 0.
C4_AsStated ==
    ScenarioB =>
        /\ counters.submit_failures[1] = 1
        /\ counters.submit_failures[2] = 1
        /\ counters.successes = 1
        /\ \A b \in 1..Len(counters.wait_failures) : counters.wait_failures[b] = 0

\* C4 amended: in scenario B the final counters are submit_failures[0] = 1,
\* submit_failures[1] = 1, successes = 1, and wait_failures[0] = 1,
\* wait_failures[1] = 1, wait_failures[2] = 0: attempt 2 is reached only
\* because the waits of attempts 0 and 1 failed.
C4_ScenarioB ==
    ScenarioB =>
        /\ counters.submit_failures[1] = 1
        /\ counters.submit_failures[2] = 1
        /\ counters.successes = 1
        /\ counters.wait_failures = <<1, 1, 0>>

C4_Witness ==
    /\ ScenarioB
    /\ ~task[1].hist[3].failed_submit
    /\ counters.submit_failures = <<1, 1, 0>>

\* Scenario A: fresh counters, distinct senders, the first attempt of every
\* transaction succeeded and the call has returned
ScenarioA ==
    /\ Returned
    /\ counters_by = "rest"
    /\ DistinctSenders
    /\ \A t \in Tasks : FirstAttemptSucceeded(t)

AllBucketsZero(buckets) == \A b \in 1..Len(buckets) : buckets[b] = 0

\* C5 as stated: in scenario A the success counter is the batch size and
\* every failure bucket, per attempt and per endpoint, submit and wait, is 0.
C5_AsStated ==
    ScenarioA =>
        /\ counters.successes = Len(txns)
        /\ AllBucketsZero(counters.submit_failures)
        /\ AllBucketsZero(counters.wait_failures)
        /\ ClientSum("submit_failures") = 0
        /\ ClientSum("wait_failures") = 0

\* C5 amended: in scenario A the success counter is the batch size, every
\* wait-failure bucket (per attempt and per endpoint) is 0, every submit-failure
\* bucket of an attempt after the first is 0, and submit-failure bucket 0, like
\* the per-endpoint submit-failure total, is the number of transactions whose
\* first submission failed (0 when every first submission was accepted).
C5_ScenarioA ==
    ScenarioA =>
        /\ counters.successes = Len(txns)
        /\ ClientSum("successes") = Len(txns)
        /\ AllBucketsZero(counters.wait_failures)
        /\ ClientSum("wait_failures") = 0
        /\ counters.submit_failures[1] = Cardinality(FirstSubmitFailed)
        /\ ClientSum("submit_failures") = Cardinality(FirstSubmitFailed)
        /\ \A b \in 2..Len(counters.submit_failures) : counters.submit_failures[b] = 0

C5_Witness ==
    /\ ScenarioA
    /\ Len(txns) = 2
    /\ Len(rest_clients) = 2
    /\ Cardinality(FirstSubmitFailed) = 1
    /\ counters.successes = 2

\* the client t used, or is using, at attempt i; 0 when it has not got there
ClientAt(t, i) ==
    IF i < Len(task[t].hist) THEN task[t].hist[i + 1].submit_client
    ELSE IF task[t].pc = "wait" /\ task[t].i = i THEN task[t].submit_client
    ELSE 0

\* C6: two transactions of the batch with the same sender use the same client
\* at the same attempt index, and the submit and the wait of one attempt go
\* to one client.
C6_OneEndpointPerAttemptAndSender ==
    /\ \A t \in Tasks : \A j \in 1..Len(task[t].hist) :
          /\ task[t].hist[j].i = j - 1
          /\ task[t].hist[j].submit_client = task[t].hist[j].wait_client
          /\ task[t].hist[j].submit_client \in 1..Len(rest_clients)
    /\ \A t \in Tasks : task[t].pc = "wait" => task[t].rest_client = task[t].submit_client
    /\ \A t, u \in Tasks : txns[t].sender = txns[u].sender =>
          \A i \in 0..(max_retries - 1) :
              (ClientAt(t, i) # 0 /\ ClientAt(u, i) # 0) => ClientAt(t, i) = ClientAt(u, i)

C6_Witness ==
    /\ Len(rest_clients) = 2
    /\ \E t, u \in Tasks :
          /\ t # u
          /\ txns[t].sender = txns[u].sender
          /\ Len(task[t].hist) = 2
          /\ Len(task[u].hist) = 2
          /\ ClientAt(t, 0) # ClientAt(t, 1)
          /\ ClientAt(u, 1) = ClientAt(t, 1)

\* C7: the batch call has not returned, with success or with the error, while
\* a transaction of the batch is still attempting or in its fallback wait.
C7_ReturnsOnlyWhenAllTerminal ==
    Returned => \A t \in 1..Len(txns) : t \in Tasks /\ Terminal(t)

C7_Witness ==
    /\ Returned
    /\ result.kind = "err"
    /\ \E t, u \in Tasks :
          /\ task[t].pc = "Failed"
          /\ task[u].pc = "Done"
          /\ task[u].fallback = "committed"

\* no field of c is above the same field of d; c and d have the same shape
CountersLeq(c, d) ==
    /\ Len(c.submit_failures) = Len(d.submit_failures)
    /\ Len(c.wait_failures) = Len(d.wait_failures)
    /\ DOMAIN c.by_client = DOMAIN d.by_client
    /\ c.successes <= d.successes
    /\ \A b \in 1..Len(c.submit_failures) : c.submit_failures[b] <= d.submit_failures[b]
    /\ \A b \in 1..Len(c.wait_failures) : c.wait_failures[b] <= d.wait_failures[b]
    /\ \A id \in DOMAIN c.by_client :
          /\ c.by_client[id].successes <= d.by_client[id].successes
          /\ c.by_client[id].submit_failures <= d.by_client[id].submit_failures
          /\ c.by_client[id].wait_failures <= d.by_client[id].wait_failures

UnreachableTasks == {t \in Tasks : AllAttemptsFailed(t)}

\* the attempts 0..max_retries-1 that are booked in the bucket at position b
AttemptsInBucket(b, len) == {i \in 0..(max_retries - 1) : Bucket(i, len) + 1 = b}

C8_FailuresBooked ==
    \A t \in UnreachableTasks :
        /\ \A i \in 0..(max_retries - 1) :
              /\ counters.submit_failures[Bucket(i, Len(counters.submit_failures)) + 1] >= 1
              /\ counters.wait_failures[Bucket(i, Len(counters.wait_failures)) + 1] >= 1
        /\ \A b \in 1..Len(counters.submit_failures) :
              counters.submit_failures[b] >=
                 Cardinality(UnreachableTasks)
                    * Cardinality(AttemptsInBucket(b, Len(counters.submit_failures)))
        /\ \A b \in 1..Len(counters.wait_failures) :
              counters.wait_failures[b] >=
                 Cardinality(UnreachableTasks)
                    * Cardinality(AttemptsInBucket(b, Len(counters.wait_failures)))
        /\ task[t].pc \in {"fallback", "Done", "Failed"}
        /\ task[t].fallback = "committed" => task[t].pc = "Done"

C8_BatchStillSucceeds ==
    (/\ Returned
     /\ \A t \in Tasks :
           IF AllAttemptsFailed(t) THEN task[t].fallback = "committed"
           ELSE task[t].pc = "Done")
    => result.kind = "ok"

\* C8: a transaction whose submit and wait failed at every attempt has raised
\* the submit-failure and the wait-failure bucket of every attempt
\* 0..max_retries-1, it is Done when its fallback wait saw the commit, the
\* batch then succeeds (the others being Done), and no step lowers a counter.
C8_UnreachableEndpoint ==
    /\ [](C8_FailuresBooked /\ C8_BatchStillSucceeds)
    /\ [][phase # "new" => CountersLeq(counters, counters')]_vars

C8_Witness ==
    /\ Returned
    /\ counters_by = "rest"
    /\ max_retries = 2
    /\ Len(txns) = 2
    /\ result.kind = "ok"
    /\ \E t, u \in Tasks :
          /\ AllAttemptsFailed(t)
          /\ task[t].fallback = "committed"
          /\ ~AllAttemptsFailed(u)
    /\ \A b \in 1..2 : counters.submit_failures[b] >= 1 /\ counters.wait_failures[b] >= 1

Attempts(t) == 1..Len(task[t].hist)

\* submissions made for t so far: one per finished attempt, one for the
\* attempt whose wait is pending
Submissions(t) == Len(task[t].hist) + (IF task[t].pc = "wait" THEN 1 ELSE 0)

\* waits of submit_and_check made for t so far
Waits(t) == Len(task[t].hist)

\* C12: in every attempt the wait is made once after the submit, whatever the
\* submit returned; the attempt succeeds iff its wait succeeded; failed_submit
\* is set iff the submit failed and failed_wait iff the wait failed, so an
\* attempt can carry a submit failure and succeed.
C12_SubmitAndCheck ==
    \A t \in Tasks :
        /\ task[t].pc \in {"submit", "wait", "fallback", "Done", "Failed"}
        /\ Waits(t) <= Submissions(t)
        /\ Submissions(t) <= Waits(t) + 1
        /\ task[t].pc # "wait" => Submissions(t) = Waits(t)
        /\ task[t].pc = "wait" => (task[t].failed_submit <=> ~task[t].accepted)
        /\ \A j \in Attempts(t) :
              LET att == task[t].hist[j] IN
              /\ att.failed_submit <=> ~att.accepted
              /\ att.failed_wait <=> ~att.seen
              /\ att.ok <=> att.seen
              /\ att.ok => (j = Len(task[t].hist) /\ task[t].pc = "Done")
        /\ (task[t].pc = "Done" /\ task[t].fallback = "none") =>
              (Len(task[t].hist) >= 1 /\ task[t].hist[Len(task[t].hist)].ok)

C12_Witness ==
    \E t \in Tasks :
        /\ task[t].pc = "Done"
        /\ Len(task[t].hist) = 1
        /\ ~task[t].hist[1].accepted
        /\ task[t].hist[1].failed_submit
        /\ task[t].hist[1].ok
        /\ counters.submit_failures[1] >= 1
        /\ counters.successes >= 1

\* every finished attempt of t failed
AllFailedSoFar(t) == \A j \in Attempts(t) : ~task[t].hist[j].ok

\* C13: the machine of one transaction starts at Attempting(0) and takes the
\* attempt indices in increasing order, none skipped; after a failed attempt i
\* it stands at attempt i + 1 when i + 1 < max_retries and at the fallback
\* wait otherwise; a successful attempt ends in Done; the fallback wait is
\* entered only after exactly max_retries failed attempts, and Failed comes
\* only out of the fallback wait.
C13_RetryMachine ==
    \A t \in Tasks :
        LET me == task[t]
            n == Len(me.hist)
        IN
        /\ \A j \in 1..n : me.hist[j].i = j - 1
        /\ n = 0 => (me.pc \in {"submit", "wait"} /\ me.i = 0)
        /\ me.pc \in {"submit", "wait"} =>
              (me.i = n /\ n < max_retries /\ AllFailedSoFar(t) /\ me.fallback = "none")
        /\ (n >= 1 /\ me.hist[n].ok) => (me.pc = "Done" /\ me.fallback = "none")
        /\ (n >= 1 /\ ~me.hist[n].ok /\ n < max_retries) => me.pc \in {"submit", "wait"}
        /\ (n >= 1 /\ ~me.hist[n].ok /\ n >= max_retries) =>
              \/ me.pc = "fallback" /\ me.fallback = "none"
              \/ me.pc = "Done" /\ me.fallback = "committed"
              \/ me.pc = "Failed" /\ me.fallback = "failed"
        /\ (me.pc = "fallback" \/ me.fallback # "none") =>
              (n = max_retries /\ AllFailedSoFar(t))
        /\ me.pc = "Failed" => me.fallback = "failed"
        /\ n <= max_retries

\* one transaction failed its first attempts, succeeded at the last; another
\* failed them all and its fallback wait failed
C13_Witness ==
    /\ max_retries = 2
    /\ \E t, u \in Tasks :
        /\ task[t].pc = "Done"
        /\ Len(task[t].hist) = 2
        /\ task[t].hist[2].ok
        /\ task[u].pc = "Failed"
        /\ Len(task[u].hist) = 2
        /\ task[u].hist[2].failed_wait

\* the step in which the fallback wait of t returns
FallbackStep(t) ==
    /\ t \in DOMAIN task
    /\ t \in DOMAIN task'
    /\ task[t].pc = "fallback"
    /\ task'[t].pc # "fallback"

\* C14: a fallback wait changes nothing in the CounterState but the global
\* success counter: when it succeeds, successes grows by one and every
\* bucket and every per-endpoint triple stays; when it fails, the whole
\* CounterState stays and the error reaches the caller of the batch call.
C14_FallbackFrame ==
    /\ [][\A t \in 1..MaxTxns :
            FallbackStep(t) =>
               \/ /\ task'[t].pc = "Done"
                  /\ counters' = [counters EXCEPT !.successes = @ + 1]
                  /\ counters'.submit_failures = counters.submit_failures
                  /\ counters'.wait_failures = counters.wait_failures
                  /\ counters'.by_client = counters.by_client
               \/ /\ task'[t].pc = "Failed"
                  /\ counters' = counters]_vars
    /\ []((Returned /\ \E t \in Tasks : task[t].fallback = "failed") =>
             result.kind = "err")

C14_Witness ==
    /\ Returned
    /\ counters_by = "rest"
    /\ Len(txns) = 2
    /\ task[1].fallback = "committed"
    /\ task[2].fallback = "failed"
    /\ counters.successes = 1
    /\ ClientSum("successes") = 0
    /\ result.kind = "err"

\* the total of an array of per-attempt buckets
BucketSum(buckets) == SumOver(buckets, 1..Len(buckets))

DistinctIdentities ==
    \A a, b \in 1..Len(rest_clients) : a # b => rest_clients[a] # rest_clients[b]

AllTerminal == Tasks # {} /\ \A t \in Tasks : Terminal(t)

FallbackDone == {t \in Tasks : task[t].pc = "Done" /\ task[t].fallback = "committed"}

\* C15: with a CounterState of this executor's create_counter_state over
\* endpoints of distinct identities, the per-endpoint submit failures (and wait
\* failures) sum to at most the total of the per-attempt buckets, to exactly
\* that total once every transaction is terminal, and the per-endpoint
\* successes sum to the global success counter less the transactions that
\* reached Done through the fallback wait.
C15_PerEndpointTotals ==
    (counters_by = "rest" /\ DistinctIdentities) =>
        /\ ClientSum("submit_failures") <= BucketSum(counters.submit_failures)
        /\ ClientSum("wait_failures") <= BucketSum(counters.wait_failures)
        /\ AllTerminal =>
              /\ ClientSum("submit_failures") = BucketSum(counters.submit_failures)
              /\ ClientSum("wait_failures") = BucketSum(counters.wait_failures)
        /\ ClientSum("successes") = counters.successes - Cardinality(FallbackDone)

C15_Witness ==
    /\ counters_by = "rest"
    /\ DistinctIdentities
    /\ Len(rest_clients) = 2
    /\ AllTerminal
    /\ Cardinality(FallbackDone) = 1
    /\ counters.successes = 2
    /\ ClientSum("successes") = 1
    /\ ClientSum("submit_failures") >= 2
    /\ ClientSum("wait_failures") >= 2
    /\ \E id \in DOMAIN counters.by_client : counters.by_client[id].wait_failures = 0

\* the step in which the submit of t's current attempt is made
SubmitStep(t) ==
    /\ t \in DOMAIN task
    /\ t \in DOMAIN task'
    /\ task[t].pc = "submit"
    /\ task'[t].pc = "wait"

\* t is earlier in the input than u and both have the same sender, so t has
\* the lower sequence number
EarlierOfSender(t, u) ==
    /\ t \in DOMAIN task
    /\ u \in DOMAIN task
    /\ t < u
    /\ txns[t].sender = txns[u].sender
    /\ txns[t].sequence_number < txns[u].sequence_number

\* C16 as stated: of two transactions of one sender, the endpoint pinned for
\* attempt i gets the submission of the earlier one before that of the later
\* one: when the earlier one is submitted at attempt i, the later one has not
\* been submitted at attempt i yet.
C16_AsStated ==
    [][\A t, u \in 1..MaxTxns :
          (EarlierOfSender(t, u) /\ SubmitStep(t)) => ClientAt(u, task[t].i) = 0]_vars

\* the same order, asked of the attempts after the first only
C16_AsStatedAfterFirstAttempt ==
    [][\A t, u \in 1..MaxTxns :
          (EarlierOfSender(t, u) /\ SubmitStep(t) /\ task[t].i >= 1) =>
              ClientAt(u, task[t].i) = 0]_vars

\* C16 amended: of two transactions of one sender, attempt i of either is
\* submitted to the endpoint pinned for (i, run_seed, sender), so the two
\* submissions of attempt i reach one endpoint; which of the two it gets
\* first is not fixed, each transaction moves to its next attempt when its
\* own wait has returned.
C16_SameEndpointAnyOrder ==
    [][\A t, u \in 1..MaxTxns :
          (EarlierOfSender(t, u) /\ (SubmitStep(t) \/ SubmitStep(u))) =>
              LET a == IF SubmitStep(t) THEN t ELSE u
                  b == IF SubmitStep(t) THEN u ELSE t
                  i == task[a].i
              IN  /\ task'[a].submit_client \in 1..Len(rest_clients)
                  /\ ClientAt(b, i) # 0 => task'[a].submit_client = ClientAt(b, i)]_vars

\* the later transaction has finished attempt 1 while the earlier one of the
\* same sender has yet to submit at attempt 1
C16_Witness ==
    /\ Len(rest_clients) = 2
    /\ \E t, u \in Tasks :
          /\ EarlierOfSender(t, u)
          /\ task[t].pc = "submit"
          /\ task[t].i = 1
          /\ Len(task[u].hist) >= 2
          /\ ClientAt(u, 1) # ClientAt(u, 0)

\* the earlier transaction is submitted at attempt 1 to the endpoint that has
\* the later one's submission of attempt 1 already
C16_WitnessSameEndpoint ==
    \E t, u \in Tasks :
        /\ EarlierOfSender(t, u)
        /\ task[t].pc = "wait"
        /\ task[t].i = 1
        /\ Len(task[u].hist) >= 2
        /\ Len(rest_clients) = 2
        /\ task[t].submit_client = ClientAt(u, 1)
        /\ ClientAt(u, 1) # ClientAt(u, 0)

\* C17: when every transport call returns, every transaction's machine comes
\* to Done or Failed and the batch call returns; a transaction is submitted
\* at most max_retries times, never in the fallback wait and never again once
\* one of its waits has succeeded.
C17_TerminatesWithBoundedSubmits ==
    /\ (phase = "running") ~> (Returned /\ \A t \in Tasks : Terminal(t))
    /\ [](\A t \in Tasks : Submissions(t) <= max_retries)
    /\ [][\A t \in 1..MaxTxns :
            (t \in DOMAIN task /\ t \in DOMAIN task' /\ Submissions(t)' > Submissions(t)) =>
                /\ task[t].pc = "submit"
                /\ task[t].fallback = "none"
                /\ AllFailedSoFar(t)
                /\ Submissions(t)' = Submissions(t) + 1]_vars
    /\ [](\A t \in Tasks : (task[t].fallback # "none" \/ task[t].pc = "fallback") =>
             Submissions(t) = max_retries)

C17_Witness ==
    /\ Returned
    /\ max_retries = 2
    /\ Len(txns) = 2
    /\ task[1].pc = "Failed"
    /\ Submissions(1) = 2
    /\ task[2].pc = "Done"
    /\ Submissions(2) = 1

\* the finished attempts <<t, j>> of the batch
AllAttempts == {p \in Tasks \X (1..MaxRetries) : p[2] <= Len(task[p[1]].hist)}

Attempt(p) == task[p[1]].hist[p[2]]

\* position, in an array of len buckets, of the attempt with index i when the
\* index is held at length - 1
ClampedPosition(i, len) == IF i <= len - 1 THEN i + 1 ELSE len

\* C20: with a CounterState that is not empty and was not made for this
\* executor, a submit or wait failure of attempt i is in bucket
\* min(i, length - 1): the arrays keep their lengths, each bucket holds the
\* failures of its attempts and the buckets total the recorded failures; the
\* per-endpoint map keeps its keys, an endpoint without an entry (or an empty
\* map) gets no per-endpoint update, and the buckets and the global success
\* counter are updated all the same.
C20_ForeignCounterState ==
    counters_by \in {"db", "other"} =>
        LET shape == IF counters_by = "db" THEN db_create_counter_state
                     ELSE other_create_counter_state
            ns == Len(shape.submit_failures)
            nw == Len(shape.wait_failures)
        IN
        /\ Len(counters.submit_failures) = ns
        /\ Len(counters.wait_failures) = nw
        /\ \A b \in 1..ns :
              counters.submit_failures[b] =
                 Cardinality({p \in AllAttempts :
                                 /\ Attempt(p).failed_submit
                                 /\ ClampedPosition(Attempt(p).i, ns) = b})
        /\ \A b \in 1..nw :
              counters.wait_failures[b] =
                 Cardinality({p \in AllAttempts :
                                 /\ Attempt(p).failed_wait
                                 /\ ClampedPosition(Attempt(p).i, nw) = b})
        /\ BucketSum(counters.submit_failures) =
              Cardinality({p \in AllAttempts : Attempt(p).failed_submit})
        /\ BucketSum(counters.wait_failures) =
              Cardinality({p \in AllAttempts : Attempt(p).failed_wait})
        /\ counters.successes = Cardinality(DoneTasks)
        /\ DOMAIN counters.by_client = DOMAIN shape.by_client
        /\ \A id \in DOMAIN counters.by_client :
              /\ counters.by_client[id].submit_failures =
                    Cardinality({p \in AllAttempts :
                                    /\ Attempt(p).failed_submit
                                    /\ rest_clients[Attempt(p).wait_client] = id})
              /\ counters.by_client[id].wait_failures =
                    Cardinality({p \in AllAttempts :
                                    /\ Attempt(p).failed_wait
                                    /\ rest_clients[Attempt(p).wait_client] = id})
              /\ counters.by_client[id].successes =
                    Cardinality({p \in AllAttempts :
                                    /\ Attempt(p).ok
                                    /\ rest_clients[Attempt(p).wait_client] = id})

\* three attempts on two buckets, the third at an endpoint the map has no
\* entry for
C20_Witness ==
    /\ counters_by = "other"
    /\ max_retries = 3
    /\ Len(counters.submit_failures) = 2
    /\ Len(txns) = 1
    /\ task[1].pc = "Done"
    /\ Len(task[1].hist) = 3
    /\ task[1].hist[3].failed_submit
    /\ rest_clients[task[1].hist[3].wait_client] \notin DOMAIN counters.by_client
    /\ counters.submit_failures = <<1, 2>>
    /\ counters.wait_failures = <<1, 1>>
    /\ counters.successes = 1
    /\ ClientSum("successes") = 0

\* the empty per-endpoint map of the local-ledger executor's CounterState
C20_WitnessEmptyMap ==
    /\ counters_by = "db"
    /\ max_retries = 2
    /\ AllTerminal
    /\ counters.by_client = <<>>
    /\ counters.submit_failures = <<2>>
    /\ counters.wait_failures = <<1>>
    /\ counters.successes = 1

\* ------------------------------------------------ local-ledger executor
NoTxn == [sender |-> 0, sequence_number |-> 0, payload |-> 0]

UserTransaction(t) == [kind |-> "user", txn |-> t]

StateCheckpoint == [kind |-> "checkpoint", txn |-> NoTxn]

\* a packaging that forgets the checkpoint marker
BlockOfNoCheckpoint(ts) == [k \in 1..Len(ts) |-> UserTransaction(ts[k])]

\* lines 62-70: the transactions in input order, then one checkpoint marker
BlockOf(ts) == [k \in 1..Len(ts) |-> UserTransaction(ts[k])] \o <<StateCheckpoint>>

\* the states the local ledger can be in when the call starts: any set of
\* accounts, each at a sequence number of 0..MaxSeqNum
LedgerStates ==
    UNION {[A -> 0..MaxSeqNum] : A \in SUBSET Senders}

\* batches an earlier call may have left in the channel
EarlierBlocks ==
    {BlockOf(MkBatch(<<s>>, q, 1)) : s \in Senders, q \in 0..MaxSeqNum}

\* the ledger's rule for one element of a block: a user transaction commits
\* only when its sequence number is its sender's next expected one
ApplyTransaction(st, e) ==
    IF /\ e.kind = "user"
       /\ e.txn.sender \in DOMAIN st.seq
       /\ st.seq[e.txn.sender] = e.txn.sequence_number
    THEN [seq |-> [st.seq EXCEPT ![e.txn.sender] = @ + 1],
          done |-> st.done \cup {e.txn}]
    ELSE st

RECURSIVE ApplyBlock(_, _)
ApplyBlock(st, block) ==
    IF block = <<>> THEN st
    ELSE ApplyBlock(ApplyTransaction(st, Head(block)), Tail(block))

\* a loop that is content one sequence number too early
StillBehindByTwo(txn, observed) == txn.sequence_number > observed + 1

\* a loop that also waits when the ledger stands exactly at the transaction
StillBehindOrEqual(txn, observed) == txn.sequence_number >= observed

\* line 74, the while condition: the transaction's sequence number is above
\* the one query_sequence_number returned
StillBehind(txn, observed) == txn.sequence_number > observed

\* a call that credits a success to the CounterState
CountersCredited(c) == [c EXCEPT !.successes = @ + 1]

\* line 59: the CounterState parameter is _state, the body never uses it
CountersAfterCall(c) == c

InitDb ==
    /\ rest_clients = <<>>
    /\ max_retries = 0
    /\ counters = NoCounters
    /\ counters_by = "none"
    /\ phase = "new"
    /\ txns = <<>>
    /\ run_seed = 0
    /\ task = <<>>
    /\ result = NoResult
    /\ db_seq \in LedgerStates
    /\ block_sender \in {<<>>} \cup {<<b>> : b \in EarlierBlocks}
    /\ receiver_up = TRUE
    /\ cursor = 0
    /\ sent = <<>>
    /\ committed = {}
    /\ queries = 0

\* the driver creates the CounterState with the local-ledger executor
DbCreateCounterState ==
    /\ phase = "new"
    /\ counters' = db_create_counter_state
    /\ counters_by' = "db"
    /\ phase' = "ready"
    /\ UNCHANGED <<txns, result, restVars, dbVars>>

\* execute_transactions_with_counter is called with a batch
DbExecuteStart ==
    /\ phase = "ready"
    /\ \E ss \in SenderLists(MaxTxns), q \in 0..MaxSeqNum : txns' = MkBatch(ss, q, 0)
    /\ phase' = "sending"
    /\ UNCHANGED <<counters, counters_by, result, restVars, dbVars>>

\* lines 61-71, the send succeeds: the block is in the channel; with no
\* transaction to poll for the call returns at once
DbSend ==
    /\ phase = "sending"
    /\ receiver_up
    /\ Len(block_sender) < ChannelCapacity
    /\ block_sender' = Append(block_sender, BlockOf(txns))
    /\ sent' = Append(sent, BlockOf(txns))
    /\ IF txns = <<>>
       THEN /\ phase' = "returned"
            /\ result' = [kind |-> "ok", batch_size |-> 0, cause |-> 0]
            /\ cursor' = cursor
       ELSE /\ phase' = "polling"
            /\ result' = result
            /\ cursor' = 1
    /\ counters' = CountersAfterCall(counters)
    /\ UNCHANGED <<counters_by, txns, restVars, db_seq, receiver_up, committed, queries>>

\* lines 61-71, the send fails (the receiver is gone): the ? returns the error
DbSendFails ==
    /\ phase = "sending"
    /\ ~receiver_up
    /\ phase' = "returned"
    /\ result' = [kind |-> "err", batch_size |-> 0, cause |-> 0]
    /\ UNCHANGED <<counters, counters_by, txns, restVars, dbVars>>

\* lines 73-78, one evaluation of the while condition for txns[cursor]:
\* query_sequence_number panics without an account resource; a sequence number
\* still above the ledger's sleeps and asks again; otherwise the for loop
\* moves on, and past the last transaction the call returns Ok
DbPoll ==
    /\ phase = "polling"
    /\ LET txn == txns[cursor] IN
       /\ queries' = Min(queries + 1, MaxQueries)
       /\ IF txn.sender \notin DOMAIN db_seq
          THEN /\ phase' = "panicked"
               /\ UNCHANGED <<cursor, result>>
          ELSE IF StillBehind(txn, db_seq[txn.sender])
          THEN UNCHANGED <<phase, cursor, result>>
          ELSE IF cursor < Len(txns)
          THEN /\ cursor' = cursor + 1
               /\ UNCHANGED <<phase, result>>
          ELSE /\ phase' = "returned"
               /\ result' = [kind |-> "ok", batch_size |-> 0, cause |-> 0]
               /\ cursor' = cursor + 1
    /\ counters' = CountersAfterCall(counters)
    /\ UNCHANGED <<counters_by, txns, restVars, db_seq, block_sender, receiver_up, sent,
                   committed>>

\* the block-execution pipeline takes the oldest block and executes it up to
\* its checkpoint
PipelineExecute ==
    /\ receiver_up
    /\ block_sender # <<>>
    /\ LET st == ApplyBlock([seq |-> db_seq, done |-> committed], Head(block_sender)) IN
       /\ db_seq' = st.seq
       /\ committed' = st.done
    /\ block_sender' = Tail(block_sender)
    /\ UNCHANGED <<counters, counters_by, phase, txns, result, restVars, receiver_up,
                   cursor, sent, queries>>

\* the pipeline ends and drops the receiving end of the channel
PipelineStop ==
    /\ receiver_up
    /\ receiver_up' = FALSE
    /\ UNCHANGED <<counters, counters_by, phase, txns, result, restVars, db_seq,
                   block_sender, cursor, sent, committed, queries>>

NextDb ==
    \/ DbCreateCounterState
    \/ DbExecuteStart
    \/ DbSend
    \/ DbSendFails
    \/ DbPoll
    \/ PipelineExecute
    \/ PipelineStop

SpecDb == InitDb /\ [][NextDb]_vars

\* the polling task is scheduled again after each sleep of line 75
FairSpecDb == SpecDb /\ WF_vars(DbPoll)


\* =================================================================
\* Properties of the local-ledger executor (checked under SpecDb)
\* =================================================================
ReturnedOk == phase = "returned" /\ result.kind = "ok"

ReturnedErr == phase = "returned" /\ result.kind = "err"

\* C3: when the local-ledger call returns success, every given transaction
\* has been committed by the local ledger.
C3_SuccessMeansCommitted ==
    ReturnedOk => \A k \in 1..Len(txns) : txns[k] \in committed

\* C10: one call puts exactly one block on the channel, the input
\* transactions in input order followed by one checkpoint marker as the last
\* element; nothing is polled before the send, and a failed send fails the
\* call without a poll.
C10_OneBlockThenPoll ==
    /\ phase \in {"new", "ready", "sending"} => (sent = <<>> /\ queries = 0)
    /\ queries > 0 => Len(sent) = 1
    /\ (phase \in {"polling", "panicked"} \/ ReturnedOk) =>
          /\ Len(sent) = 1
          /\ Len(sent[1]) = Len(txns) + 1
          /\ \A k \in 1..Len(txns) : sent[1][k] = UserTransaction(txns[k])
          /\ sent[1][Len(txns) + 1].kind = "checkpoint"
    /\ ReturnedErr => (sent = <<>> /\ queries = 0)

C10_Witness ==
    /\ ReturnedOk
    /\ Len(txns) = 2
    /\ queries >= 2
    /\ Len(sent) = 1
    /\ Len(sent[1]) = 3
    /\ txns[1].sender # txns[2].sender

C10_WitnessSendFails ==
    /\ ReturnedErr
    /\ Len(txns) = 2
    /\ sent = <<>>

\* the ledger shows the sender of txns[k] at the sequence number of txns[k]
\* or above
Reached(k) ==
    /\ txns[k].sender \in DOMAIN db_seq
    /\ db_seq[txns[k].sender] >= txns[k].sequence_number

\* the sender of txns[k] has an account that is still below txns[k]
Below(k) ==
    /\ txns[k].sender \in DOMAIN db_seq
    /\ db_seq[txns[k].sender] < txns[k].sequence_number

AllReached == \A k \in 1..Len(txns) : Reached(k)

\* C11: the local-ledger call has not returned success, and its loop has not
\* moved past a transaction, while the sender's sequence number in the local
\* ledger is below the transaction's: with the sender at N - 1 and a
\* transaction numbered N it stays polling until the ledger shows N or more.
C11_NoSuccessBeforeSequenceReached ==
    /\ ReturnedOk => AllReached
    /\ phase = "polling" => \A k \in 1..(cursor - 1) : Reached(k)
    /\ (phase \in {"polling", "returned"} /\ \E k \in 1..Len(txns) : Below(k)) =>
          ~ReturnedOk

\* two transactions of one sender, numbered N - 1 and N: the call asked the
\* ledger at least three times, so it waited at the second, and returned
\* with the ledger above N
C11_Witness ==
    /\ ReturnedOk
    /\ Len(txns) = 2
    /\ txns[1].sender = txns[2].sender
    /\ txns[2].sequence_number = txns[1].sequence_number + 1
    /\ queries >= 3
    /\ db_seq[txns[2].sender] > txns[2].sequence_number
    /\ txns[2] \in committed

\* the call waits at the second transaction, the ledger one below it
C11_WitnessWaiting ==
    /\ phase = "polling"
    /\ cursor = 2
    /\ Below(2)
    /\ db_seq[txns[2].sender] = txns[2].sequence_number - 1
    /\ queries >= 2

\* the block of this call has been sent and taken out of the channel by the
\* pipeline
Executed ==
    /\ Len(sent) = 1
    /\ \A j \in 1..Len(block_sender) : block_sender[j] # sent[1]

\* while the transaction under the cursor is below, the call stays in its loop
StaysPolling ==
    (phase = "polling" /\ Below(cursor)) => (phase' = "polling" /\ cursor' = cursor)

\* C18 as stated: the call returns only when every sender has reached the
\* sequence number of each of its transactions; once the pipeline has executed
\* the delivered block the call eventually returns success; while a sender
\* stays below a submitted sequence number the call keeps polling.
C18_AsStated ==
    /\ [](ReturnedOk => AllReached)
    /\ Executed ~> ReturnedOk
    /\ [][StaysPolling]_vars

\* C18 amended: the call has no timeout. It returns success only when every
\* sender has reached the sequence number of each of its transactions; once
\* the ledger shows that for every given transaction, the polling call
\* eventually returns success (the execution of the delivered block alone does
\* not bring it about: a transaction ahead of its sender's sequence number is
\* not committed and leaves the number where it was); while a sender stays
\* below a submitted sequence number the call keeps polling.
C18_NoTimeout ==
    /\ [](ReturnedOk => AllReached)
    /\ (phase = "polling" /\ AllReached) ~> ReturnedOk
    /\ [][StaysPolling]_vars

C18_Witness ==
    /\ phase = "polling"
    /\ Executed
    /\ block_sender = <<>>
    /\ receiver_up
    /\ Below(cursor)
    /\ queries >= 2

\* C19: the local-ledger call leaves the CounterState it is given as it was:
\* one submit-failure bucket, one wait-failure bucket, the success counter
\* and the empty per-endpoint map keep the values create_counter_state gave.
C19_CountersUntouched ==
    /\ [](counters_by = "db" => counters = db_create_counter_state)
    /\ [][phase # "new" => counters' = counters]_vars

C19_Witness ==
    /\ ReturnedOk
    /\ queries >= 3
    /\ Len(txns) = 2
    /\ counters = [submit_failures |-> <<0>>, wait_failures |-> <<0>>, successes |-> 0,
                   by_client |-> <<>>]

C19_WitnessSendFails ==
    /\ ReturnedErr
    /\ counters = db_create_counter_state

====
